---- MODULE Spec2Model ----
(***************************************************************************)
(* A model of the two request handlers of GitLLM:                          *)
(*   POST /api/search            (frontend/src/app/api/search/route.ts)    *)
(*   POST /api/pattern-analyzer  (frontend/src/app/api/pattern-analyzer/   *)
(*                                route.ts)                                *)
(* One behaviour is one request.  The request body and the answers of the  *)
(* two upstream services (the planning model and the code-hosting API) are *)
(* drawn in Init; the actions are the handler's code between two awaits.   *)
(***************************************************************************)
EXTENDS Integers, Sequences, FiniteSets, TLC

(***************************************************************************)
(* Bounds of the model.                                                    *)
(***************************************************************************)
\* longest hit list whose fetch outcomes are combined freely
MaxSmallHits == 2
\* longest hit list of the enrichment specification (beyond the prefix bound)
MaxHits == 11
\* longest free text of the sanitizer specification
MaxLen == 5
\* the number of lines of the long file
MaxLines == 12
\* the number of requests a client component sends
MaxSubmits == 2

(***************************************************************************)
(* JavaScript values and text.  A text is a sequence of tokens; a token is *)
(* a record [k, v]: a plain character has k = "", a JSON member            *)
(* "key": "value" is one token with k = key.                               *)
(***************************************************************************)
undefined == "undefined"

Ch(c) == [k |-> "", v |-> c]
Member(key, val) == [k |-> key, v |-> val]

BT == Ch("backtick")
JSONTAG == Ch("json")
NL == Ch("\n")
SPACE == Ch(" ")
LBRACE == Ch("{")
RBRACE == Ch("}")
NULLLIT == Ch("null")
PLANKEY == Ch("searchPlan:")
LETTER == Ch("q")

IsSpace(t) == t \in {NL, SPACE}

Drop(s, n) == SubSeq(s, n + 1, Len(s))

StartsWith(s, pat) == Len(s) >= Len(pat) /\ SubSeq(s, 1, Len(pat)) = pat

\* String.prototype.trim
RECURSIVE TrimStart(_)
TrimStart(s) ==
  IF s # <<>> /\ IsSpace(Head(s)) THEN TrimStart(Tail(s)) ELSE s

RECURSIVE TrimEnd(_)
TrimEnd(s) ==
  IF s # <<>> /\ IsSpace(s[Len(s)]) THEN TrimEnd(SubSeq(s, 1, Len(s) - 1)) ELSE s

Trim(s) == TrimEnd(TrimStart(s))

\* s.replace(/<pat>\n?/g, ""): every leftmost, non-overlapping match of pat,
\* with the newline after it when there is one, is removed
RECURSIVE ReplaceAllNL(_, _)
ReplaceAllNL(s, pat) ==
  IF s = <<>> THEN <<>>
  ELSE IF StartsWith(s, pat)
       THEN LET rest == Drop(s, Len(pat))
            IN  ReplaceAllNL(IF rest # <<>> /\ rest[1] = NL THEN Tail(rest) ELSE rest, pat)
       ELSE <<Head(s)>> \o ReplaceAllNL(Tail(s), pat)

FENCE == <<BT, BT, BT>>
FENCEJSON == <<BT, BT, BT, JSONTAG>>

\* the mutant of cleanedText: only the tagged fence is stripped
cleanedTextTaggedOnly(text) == Trim(ReplaceAllNL(text, FENCEJSON))

\* the three-backtick fence marker, bare and with the json tag
\* (search/route.ts: two global replaces, then trim)
cleanedText(text) == Trim(ReplaceAllNL(ReplaceAllNL(text, FENCEJSON), FENCE))

(***************************************************************************)
(* JSON.parse, on the token texts of this model.  A document is            *)
(*   { searchPlan: { member* } }   or   { member* }   or   null            *)
(* with white space allowed between tokens; a member is a key/value token  *)
(* or a character of a string value.  Anything else is a SyntaxError.      *)
(***************************************************************************)
RECURSIVE Squeeze(_)
Squeeze(s) ==
  IF s = <<>> THEN <<>>
  ELSE IF IsSpace(Head(s)) THEN Squeeze(Tail(s))
       ELSE <<Head(s)>> \o Squeeze(Tail(s))

\* the tokens that make up the members of an object: anything but structure
IsMembers(s) == \A i \in 1..Len(s) : s[i] \notin {LBRACE, RBRACE, PLANKEY, NULLLIT}

PlanFields == {"searchTarget", "githubQueryString", "queryAssessment",
               "constructionRationale", "inferredIntent"}

\* the value of a key in a member list: the last one wins, undefined if none
RECURSIVE Lookup(_, _)
Lookup(ms, key) ==
  IF ms = <<>> THEN undefined
  ELSE IF ms[Len(ms)].k = key THEN ms[Len(ms)].v
       ELSE Lookup(SubSeq(ms, 1, Len(ms) - 1), key)

NoPlan == [f \in PlanFields |-> undefined]

SyntaxError == [ok |-> FALSE, hasPlan |-> FALSE, searchPlan |-> NoPlan, rest |-> <<>>]

JSONparse(text) ==
  LET t == Squeeze(text)
      n == Len(t)
  IN  IF t = <<NULLLIT>>
      THEN [ok |-> TRUE, hasPlan |-> FALSE, searchPlan |-> NoPlan, rest |-> <<>>]
      ELSE IF n >= 2 /\ t[1] = LBRACE /\ t[n] = RBRACE
      THEN LET inner == SubSeq(t, 2, n - 1)
               m == Len(inner)
           IN  IF m >= 3 /\ inner[1] = PLANKEY /\ inner[2] = LBRACE /\ inner[m] = RBRACE
                  /\ IsMembers(SubSeq(inner, 3, m - 1))
               THEN [ok |-> TRUE, hasPlan |-> TRUE,
                     searchPlan |-> [f \in PlanFields |-> Lookup(SubSeq(inner, 3, m - 1), f)],
                     rest |-> SubSeq(inner, 3, m - 1)]
               ELSE IF IsMembers(inner)
               THEN [ok |-> TRUE, hasPlan |-> FALSE, searchPlan |-> NoPlan, rest |-> inner]
               ELSE SyntaxError
      ELSE SyntaxError

(***************************************************************************)
(* The request body.  A JavaScript value is [type, str, num].              *)
(***************************************************************************)
JSUndefined == [type |-> "undefined", str |-> <<>>, num |-> 0]
JSNull == [type |-> "null", str |-> <<>>, num |-> 0]
JSNumber(n) == [type |-> "number", str |-> <<>>, num |-> n]
JSString(s) == [type |-> "string", str |-> s, num |-> 0]

\* !v
Falsy(v) ==
  \/ v.type \in {"undefined", "null"}
  \/ v.type = "number" /\ v.num = 0
  \/ v.type = "string" /\ v.str = <<>>

\* the mutant of InvalidInput: the trim() test is left out
InvalidInputNoTrim(v) == Falsy(v) \/ v.type # "string"

\* !query || typeof query !== 'string' || query.trim() === ''
InvalidInput(v) == Falsy(v) \/ v.type # "string" \/ Trim(v.str) = <<>>

PrimaryInputs ==
  {JSUndefined, JSNull, JSNumber(0), JSNumber(42),
   JSString(<<>>), JSString(<<SPACE, SPACE>>), JSString(<<NL>>),
   JSString(<<LETTER>>), JSString(<<SPACE, LETTER, SPACE>>)}

\* a JSON body with the primary input i and nothing else; language,
\* userFilter and repoFilter (of filters) are read by the pattern route only
Body(i) ==
  [json |-> TRUE, input |-> i, language |-> JSUndefined,
   userFilter |-> JSUndefined, repoFilter |-> JSUndefined]

\* json = FALSE: request.json() rejects (the body is no JSON object)
Bodies ==
  {Body(i) : i \in PrimaryInputs} \cup {[Body(JSUndefined) EXCEPT !.json = FALSE]}

(***************************************************************************)
(* What the planning model may answer.                                     *)
(***************************************************************************)
QUERYSTRING == "react hooks language:js"

Targets == {"code", "repositories", "none", "issues"}

FullMembers(t) ==
  <<Member("searchTarget", t), Member("githubQueryString", QUERYSTRING),
    Member("queryAssessment", "assessment"),
    Member("constructionRationale", "rationale"),
    Member("inferredIntent", "intent")>>

RECURSIVE Without(_, _)
Without(ms, key) ==
  IF ms = <<>> THEN <<>>
  ELSE IF Head(ms).k = key THEN Without(Tail(ms), key)
       ELSE <<Head(ms)>> \o Without(Tail(ms), key)

PlanDoc(ms) == <<LBRACE, PLANKEY, LBRACE>> \o ms \o <<RBRACE, RBRACE>>

\* documents holding every field
FullDocs == {PlanDoc(FullMembers(t)) : t \in Targets}

\* documents that are JSON but lack a field, or the plan itself
PartialDocs ==
  {PlanDoc(Without(FullMembers("code"), f)) : f \in PlanFields}
    \cup {PlanDoc(Without(FullMembers("none"), "queryAssessment")),
          PlanDoc(<<>>), <<LBRACE, RBRACE>>, <<NULLLIT>>}

\* answers that are no JSON: nothing, prose, a truncated document
BrokenDocs ==
  {<<>>, <<LETTER>>, <<LBRACE, PLANKEY, LBRACE, Member("searchTarget", "code"), RBRACE>>}

Fences ==
  {[open |-> <<>>, close |-> <<>>],
   [open |-> FENCEJSON \o <<NL>>, close |-> <<NL>> \o FENCE],
   [open |-> FENCE \o <<NL>>, close |-> <<NL>> \o FENCE],
   [open |-> FENCEJSON, close |-> FENCE],
   [open |-> FENCE, close |-> FENCE \o <<NL>>]}

Wrap(f, doc) == f.open \o doc \o f.close

\* the fences the planner is seen to use: none, tagged, bare
UsualFences == {f \in Fences : f.open \in {<<>>, FENCEJSON \o <<NL>>, FENCE \o <<NL>>}}

PlannerTexts ==
  {Wrap(f, d) : f \in UsualFences, d \in FullDocs \cup PartialDocs \cup BrokenDocs}
    \cup {<<LETTER, SPACE>> \o Wrap(f, PlanDoc(FullMembers("code"))) : f \in UsualFences}

\* every text of at most n tokens over the alphabet S
RECURSIVE TextsUpTo(_, _)
TextsUpTo(S, n) ==
  IF n = 0 THEN {<<>>}
  ELSE LET shorter == TextsUpTo(S, n - 1)
       IN  shorter \cup {Append(t, c) : t \in shorter, c \in S}

Alphabet == {BT, JSONTAG, NL, LBRACE, RBRACE, PLANKEY, Member("searchTarget", "none")}

\* plan documents whose string values hold fence markers
FencedInside ==
  {PlanDoc(FullMembers(t) \o mark) :
     t \in {"code", "none"},
     mark \in {FENCE, FENCEJSON, FENCE \o <<NL>>, <<BT, BT>> \o FENCEJSON \o <<BT>>}}

FreeTexts == TextsUpTo(Alphabet, MaxLen) \cup FullDocs \cup PartialDocs \cup FencedInside

\* the planner of the enrichment specification: one answer per outcome
PlannerTextsFew ==
  {PlanDoc(FullMembers(t)) : t \in Targets} \cup {<<LETTER>>, <<NULLLIT>>}

\* a rejected generateContent: status 0 is a failure without any response
PlannerErrors ==
  {[status |-> 429, message |-> "quota exceeded"],
   [status |-> 403, message |-> "API key not valid"],
   [status |-> 0, message |-> "Error fetching from generativelanguage: fetch failed"]}

(***************************************************************************)
(* What the code-hosting service may answer.                               *)
(***************************************************************************)
MAX_CONTENT_FETCHES == 10

\* what the content endpoint answers for a hit
\* ("mimicUnavailable" and "mimicLimit" are served files whose whole text is
\* one of the placeholder lines of the handler)
\* ("long" is a served file of MaxLines lines)
ResourceKinds == {"base64", "plain", "empty", "http404", "neterr", "badjson",
                  "mimicUnavailable", "mimicLimit", "long"}

\* what the repository endpoint answers for the repository of a hit
RepoKinds == {"ok", "http404", "neterr"}

\* what the planner answers when asked to compare a hit (pattern route)
AnalysisKinds == {"json", "fenced", "barefence", "prose", "noscore", "bigscore",
                  "textscore", "noinsights", "throw"}

PatternHit(i, r, w, rp, an) == [id |-> i, res |-> r, hasRepo |-> w, repo |-> rp, llm |-> an]

Hit(i, r, w) == PatternHit(i, r, w, "ok", "json")

\* the profiles of the hits of the short lists (the long file is left to the
\* long lists)
SearchProfiles ==
  {[res |-> r, hasRepo |-> TRUE] : r \in ResourceKinds \ {"long"}}
    \cup {[res |-> r, hasRepo |-> FALSE] : r \in {"base64", "neterr"}}

\* all hit lists of length n: hit i has id i
RECURSIVE HitListsOfLen(_)
HitListsOfLen(n) ==
  IF n = 0 THEN {<<>>}
  ELSE {Append(hs, Hit(n, pr.res, pr.hasRepo)) :
          hs \in HitListsOfLen(n - 1), pr \in SearchProfiles}

SmallHitLists == UNION {HitListsOfLen(n) : n \in 0..MaxSmallHits}

\* n well-formed hits whose content is served
AllGood(n) == [i \in 1..n |-> Hit(i, "base64", TRUE)]

\* the long lists: at most one hit deviates
LongHitLists ==
  {AllGood(n) : n \in 0..MaxHits}
    \cup UNION {{[AllGood(n) EXCEPT ![p] = Hit(p, r, TRUE)] :
                   p \in {1, n}, r \in {"http404", "neterr", "long"}} :
                n \in MAX_CONTENT_FETCHES..MaxHits}
    \cup {[AllGood(n) EXCEPT ![n] = Hit(n, "base64", FALSE)] : n \in {1, MaxHits}}

OkAnswer(hs) ==
  [kind |-> "response", status |-> 200, remaining |-> "absent", reset |-> "absent",
   errorText |-> "", bodyOk |-> TRUE, hasItems |-> TRUE, items |-> hs]

FailedAnswer(st, rem, rst, txt) ==
  [kind |-> "response", status |-> st, remaining |-> rem, reset |-> rst,
   errorText |-> txt, bodyOk |-> TRUE, hasItems |-> FALSE, items |-> <<>>]

\* a rejected fetch
ThrownAnswer ==
  [kind |-> "throw", status |-> 0, remaining |-> "absent", reset |-> "absent",
   errorText |-> "fetch failed", bodyOk |-> FALSE, hasItems |-> FALSE, items |-> <<>>]

RESETHEADER == "1700000000"

FailedAnswers ==
  {FailedAnswer(403, "0", RESETHEADER, "API rate limit exceeded"),
   FailedAnswer(403, "0", "absent", "API rate limit exceeded"),
   FailedAnswer(403, "57", RESETHEADER, "Resource not accessible"),
   FailedAnswer(403, "absent", "absent", "Resource not accessible"),
   FailedAnswer(422, "29", RESETHEADER, "Validation Failed"),
   FailedAnswer(404, "29", RESETHEADER, "Not Found"),
   FailedAnswer(503, "absent", "absent", "Service Unavailable")}

\* a 200 whose body is no JSON, and one without an items field
OddAnswers ==
  {[OkAnswer(<<>>) EXCEPT !.bodyOk = FALSE, !.hasItems = FALSE],
   [OkAnswer(<<>>) EXCEPT !.hasItems = FALSE]}

SearchAnswers == FailedAnswers \cup OddAnswers \cup {ThrownAnswer}
                   \cup {OkAnswer(hs) : hs \in SmallHitLists}

SearchAnswersLong == FailedAnswers \cup OddAnswers \cup {ThrownAnswer}
                       \cup {OkAnswer(hs) : hs \in LongHitLists \cup SmallHitLists}

SearchAnswersFew ==
  {FailedAnswer(403, "0", RESETHEADER, "API rate limit exceeded"), ThrownAnswer,
   OkAnswer(<<>>), OkAnswer(AllGood(1))}

\* Response.ok
Ok(r) == r.status >= 200 /\ r.status <= 299

\* new Date(parseInt(resetTime) * 1000), on the header values of this model
ResetDate(h) == IF h = RESETHEADER THEN "2023-11-14T22:13:20Z" ELSE "unknown"

\* githubFetch of the GitHub client (lib): the message of the Error it throws
\* for a response that is not ok.  No handler calls it.
githubFetch(r) ==
  IF r.status = 403 /\ r.remaining = "0"
  THEN <<"GitHub API rate limit exceeded. Resets at: ", ResetDate(r.reset)>>
  ELSE <<"GitHub API error: ", ToString(r.status), " - ", r.errorText>>

(***************************************************************************)
(* The state of one request.                                               *)
(***************************************************************************)
VARIABLES
  route,          \* "search" or "pattern": the entry point the request went to
  body,           \* the request body
  pc,             \* where the handler is suspended
  text,           \* search route: the text the planner answered with
  parsedResponse, \* search route: the parsed answer of the planner
  githubResponse, \* the answer to the search request
  tasks,          \* the promises of the per-item tasks, by position
  remainingItems, \* search route: the results of the hits beyond the bound
  response,       \* the response of the handler, NoResponse until it returns
  caught,         \* the error the outer catch of the handler received
  searchQuery,    \* pattern route: the query sent to the code search
  previous,       \* the response of the first run, once the request is run again
  firstSettled,   \* the position of the task that settled first, 0 when none has
  calls,          \* the outbound calls issued so far, in order
  ui              \* the state of the client component that sent the request

vars == <<route, body, pc, text, parsedResponse, githubResponse, tasks,
          remainingItems, response, caught, searchQuery, previous, firstSettled, calls, ui>>

\* useState<...|null>(null): no error
nullError ==
  [null |-> TRUE, message |-> <<>>, details |-> undefined, transformedQuery |-> undefined]

\* the state of a client component: kind is "page" for the search page,
\* "analyzer" for the pattern analyzer interface and "none" when the request
\* comes from elsewhere; inflight counts the requests sent and not settled,
\* submits the requests sent, held the results on hand when the latest one
\* was sent, last tells how the latest one that settled ended
NoUI ==
  [kind |-> "none", query |-> <<>>, queryTransformation |-> undefined, results |-> <<>>,
   isLoading |-> FALSE, error |-> nullError, activeTab |-> "input",
   inflight |-> 0, submits |-> 0, held |-> 0, last |-> "none"]

\* the search query of the pattern route: the pattern and its qualifiers,
\* <<>> standing for a qualifier that was not appended
NoQuery == [codePattern |-> <<>>, language |-> <<>>, user |-> <<>>, repo |-> <<>>]

NoResponse ==
  [status |-> 0, error |-> <<>>, errorDetails |-> undefined,
   transformedQuery |-> undefined, explanation |-> undefined,
   hasResults |-> FALSE, results |-> <<>>, endpoint |-> undefined]

\* NextResponse.json({ error }, { status })
ErrorResponse(st, err) == [NoResponse EXCEPT !.status = st, !.error = err]

NoAnswer ==
  [kind |-> "none", status |-> 0, remaining |-> "absent", reset |-> "absent",
   errorText |-> "", bodyOk |-> FALSE, hasItems |-> FALSE, items |-> <<>>]

PlannerCall == [api |-> "planner", target |-> "", q |-> "", item |-> 0]
SearchCall(t, q) == [api |-> "search", target |-> t, q |-> q, item |-> 0]
ContentCall(i) == [api |-> "content", target |-> "", q |-> "", item |-> i]
RepoCall(i) == [api |-> "repo", target |-> "", q |-> "", item |-> i]
AnalysisCall(i) == [api |-> "planner", target |-> "", q |-> "", item |-> i]

\* encodeURIComponent, on the query strings of this model
encodeURIComponent(v) ==
  CASE v = QUERYSTRING -> "react%20hooks%20language%3Ajs"
    [] v = undefined -> "undefined"
    [] OTHER -> v

TYPEERROR == "Cannot read properties of undefined"

\* an Error object; status is the upstream status of a failed planner call,
\* 0 when there is none
Error(st, msg) == [status |-> st, message |-> msg]
NoError == Error(0, "")

PREFIXSEARCH == "Failed to process search request: "
PREFIXPATTERN == "Failed to analyze code pattern: "

\* the response is the one of an outer catch
IsCatch(r) == Len(r.error) = 2 /\ r.error[1] \in {PREFIXSEARCH, PREFIXPATTERN}

\* the error behind the response of an outer catch
CaughtOf(r, before) == IF IsCatch(r) THEN Error(0, r.error[2]) ELSE before

\* the outer catch of the search handler
\* the mutant of CatchSearch: the message of the error is dropped
CatchSearchGeneric(msg) == ErrorResponse(500, <<PREFIXSEARCH, "Internal error">>)

CatchSearch(msg) == ErrorResponse(500, <<PREFIXSEARCH, msg>>)

(***************************************************************************)
(* The Content Enricher of the search route.                               *)
(***************************************************************************)
\* the decoded text of the file behind a hit
FileText(item) ==
  CASE item.res = "mimicUnavailable" -> <<"// Content unavailable">>
    [] item.res = "mimicLimit" -> <<"// Content not fetched (limit reached)">>
    [] item.res = "long" -> [i \in 1..MaxLines |-> ToString(i)]
    [] OTHER -> <<"code", "code">>

\* contentResponse.json()
ContentData(item) ==
  CASE item.res \in {"base64", "mimicUnavailable", "mimicLimit", "long"} ->
         [hasContent |-> TRUE, encoding |-> "base64", b64 |-> TRUE, text |-> FileText(item)]
    [] item.res = "plain" ->
         [hasContent |-> TRUE, encoding |-> "none", b64 |-> FALSE, text |-> FileText(item)]
    [] OTHER ->
         [hasContent |-> FALSE, encoding |-> "none", b64 |-> FALSE, text |-> <<"">>]

\* Buffer.from(content, 'base64').toString('utf-8')
BufferFromBase64(d) == IF d.b64 THEN d.text ELSE <<"garbage">>

\* the mutant of FirstLines: the text is not cut
FirstLinesAll(content, n) == content

\* s.split('\n').slice(0, 10).join('\n'): a text is the sequence of its lines
FirstLines(content, n) == SubSeq(content, 1, IF Len(content) < n THEN Len(content) ELSE n)

EMPTYTEXT == <<"">>

Result(item, code, ls, le, full) ==
  [id |-> item.id, path |-> "src/file", code |-> code, lineStart |-> ls, lineEnd |-> le,
   fullContent |-> full]

NoResult == [id |-> 0, path |-> "", code |-> EMPTYTEXT, lineStart |-> 0, lineEnd |-> 0, fullContent |-> EMPTYTEXT]

LIMITCONTENT == <<"// Content not fetched (limit reached)">>

ErrorMessage(item) ==
  IF item.res = "neterr" THEN "fetch failed" ELSE "Unexpected token < in JSON"

ErrorLine(prefix, msg) ==
  CASE prefix = "snippet" /\ msg = "fetch failed" -> "// Error fetching snippet: fetch failed"
    [] prefix = "snippet" -> "// Error fetching snippet: Unexpected token < in JSON"
    [] prefix = "content" /\ msg = "fetch failed" -> "// Error fetching content: fetch failed"
    [] OTHER -> "// Error fetching content: Unexpected token < in JSON"

\* the outcome of the task of one hit within the bound (route.ts 222-279):
\* a hit without repository data makes every return statement throw, the
\* one of the catch block included, so the promise rejects
Fulfilled(v) == [st |-> "fulfilled", value |-> v]
Rejected == [st |-> "rejected", value |-> NoResult]
Pending == [st |-> "pending", value |-> NoResult]

\* the mutant of EnrichTask: only the fetch that completes first is served
EnrichTaskFirstOnly(item) ==
  IF ~item.hasRepo THEN Rejected
  ELSE IF firstSettled = 0
  THEN Fulfilled(Result(item, FileText(item), 1, Len(FileText(item)), FileText(item)))
  ELSE Fulfilled(Result(item, <<"// Content unavailable">>, 1, 1,
                        <<"// Content unavailable">>))

EnrichTask(item) ==
  IF ~item.hasRepo THEN Rejected
  ELSE IF item.res = "http404"
  THEN Fulfilled(Result(item, <<"// Code snippet could not be fetched.">>, 1, 1,
                        <<"// Full content could not be fetched.">>))
  ELSE IF item.res \in {"neterr", "badjson"}
  THEN Fulfilled(Result(item, <<ErrorLine("snippet", ErrorMessage(item))>>, 1, 1,
                        <<ErrorLine("content", ErrorMessage(item))>>))
  ELSE LET d == ContentData(item)
           fullContent == IF d.hasContent /\ d.encoding = "base64" THEN BufferFromBase64(d)
                          ELSE IF d.hasContent THEN d.text
                          ELSE <<"// Content unavailable">>
           snippetLines == FirstLines(fullContent, 10)
       IN  Fulfilled(Result(item,
                            IF snippetLines = EMPTYTEXT THEN <<"// Snippet unavailable">>
                            ELSE snippetLines,
                            1, Len(snippetLines),
                            IF fullContent = EMPTYTEXT THEN <<"// Content unavailable">>
                            ELSE fullContent))

\* the result of a hit beyond the bound (route.ts 282-290)
RemainingItem(item) ==
  Result(item, <<"// Snippet not fetched (limit reached)">>, 1, 1, LIMITCONTENT)

\* the result of a repository hit (route.ts 297-303)
\* the mutant of RepoItem: a repository hit is treated as a code hit that
\* was not fetched
RepoItemAsRemaining(item) == RemainingItem(item)

RepoItem(item) == [Result(item, EMPTYTEXT, 0, 0, EMPTYTEXT) EXCEPT !.path = ""]

Min(a, b) == IF a < b THEN a ELSE b

\* the mutant of SliceFrom: the first hit beyond the bound is lost
SliceFromOffByOne(items, n) == SubSeq(items, n + 2, Len(items))

\* the mutant of SliceTo: the list is not cut
SliceToAll(items, n) == items

\* items.slice(0, n) and items.slice(n)
SliceTo(items, n) == SubSeq(items, 1, Min(n, Len(items)))
SliceFrom(items, n) == SubSeq(items, n + 1, Len(items))


(***************************************************************************)
(* The search handler: POST of search/route.ts.                            *)
(***************************************************************************)
Start(B, r) ==
  /\ route = r
  /\ body \in B
  /\ pc = "start"
  /\ text = <<>>
  /\ parsedResponse = SyntaxError
  /\ githubResponse = NoAnswer
  /\ tasks = <<>>
  /\ remainingItems = <<>>
  /\ response = NoResponse
  /\ caught = NoError
  /\ searchQuery = NoQuery
  /\ previous = NoResponse
  /\ firstSettled = 0
  /\ calls = <<>>
  /\ ui = NoUI

\* lines 62-139: the body is read and checked, the planner is called
SearchReceive ==
  /\ route = "search" /\ pc = "start"
  /\ IF ~body.json
     THEN /\ response' = CatchSearch("Unexpected end of JSON input")
          /\ pc' = "done"
          /\ calls' = calls
     ELSE IF InvalidInput(body.input)
     THEN /\ response' = ErrorResponse(400,
                 <<"Query parameter is required and must be a non-empty string">>)
          /\ pc' = "done"
          /\ calls' = calls
     ELSE /\ calls' = Append(calls, PlannerCall)
          /\ pc' = "awaitPlanner"
          /\ response' = response
  /\ caught' = CaughtOf(response', caught)
  /\ UNCHANGED <<ui, route, body, searchQuery, previous, firstSettled, text, parsedResponse, githubResponse, tasks, remainingItems>>

\* the mutant of PlannerFails: a rejected planner call is sent again
PlannerFailsRetries ==
  /\ route = "search" /\ pc = "awaitPlanner" /\ Len(calls) < 3
  /\ calls' = Append(calls, PlannerCall)
  /\ UNCHANGED <<ui, route, body, pc, text, parsedResponse, githubResponse, tasks,
                 remainingItems, response, caught, searchQuery, previous, firstSettled>>

\* lines 139-142 and 316-322: generateContent rejects
PlannerFails ==
  /\ route = "search" /\ pc = "awaitPlanner"
  /\ \E e \in PlannerErrors :
       /\ caught' = e
       /\ response' = CatchSearch(e.message)
  /\ pc' = "done"
  /\ UNCHANGED <<ui, route, body, searchQuery, previous, firstSettled, text, parsedResponse, githubResponse, tasks, remainingItems, calls>>

\* the mutant of UsePlan: a plan with target none is searched like any other
UsePlanNoShortCircuit(parsed) ==
  IF ~parsed.hasPlan
  THEN /\ response' = CatchSearch(TYPEERROR)
       /\ pc' = "done"
       /\ calls' = calls
  ELSE /\ calls' = Append(calls, SearchCall(parsed.searchPlan.searchTarget,
                             encodeURIComponent(parsed.searchPlan.githubQueryString)))
       /\ pc' = "awaitSearch"
       /\ response' = response

\* lines 163-191, once the answer is parsed
UsePlan(parsed) ==
  IF ~parsed.hasPlan
  THEN \* parsedResponse.searchPlan.searchTarget throws
       /\ response' = CatchSearch(TYPEERROR)
       /\ pc' = "done"
       /\ calls' = calls
  ELSE IF parsed.searchPlan.searchTarget = "none"
  THEN /\ response' = [NoResponse EXCEPT
                         !.status = 200,
                         !.transformedQuery = "",
                         !.explanation = parsed.searchPlan.queryAssessment,
                         !.hasResults = TRUE,
                         !.results = <<>>,
                         !.endpoint = parsed.searchPlan.searchTarget]
       /\ pc' = "done"
       /\ calls' = calls
  ELSE /\ calls' = Append(calls, SearchCall(parsed.searchPlan.searchTarget,
                             encodeURIComponent(parsed.searchPlan.githubQueryString)))
       /\ pc' = "awaitSearch"
       /\ response' = response

\* lines 139-191: the planner answers with a text
PlannerAnswers(Texts) ==
  /\ route = "search" /\ pc = "awaitPlanner"
  /\ \E t \in Texts :
       LET parsed == JSONparse(cleanedText(t))
       IN  /\ text' = t
           /\ parsedResponse' = parsed
           /\ IF ~parsed.ok
              THEN /\ response' = ErrorResponse(500, <<"Failed to parse LLM response">>)
                   /\ pc' = "done"
                   /\ calls' = calls
              ELSE UsePlan(parsed)
  /\ caught' = CaughtOf(response', caught)
  /\ UNCHANGED <<ui, route, body, searchQuery, previous, firstSettled, githubResponse, tasks, remainingItems>>

\* the response fields every later return of the search handler sets
Described(st) ==
  [NoResponse EXCEPT
     !.status = st,
     !.transformedQuery = parsedResponse.searchPlan.githubQueryString,
     !.explanation = parsedResponse.searchPlan.constructionRationale,
     !.endpoint = parsedResponse.searchPlan.searchTarget]

\* lines 194-211: a response that is not ok
SearchErrorResponse(a) ==
  [Described(a.status) EXCEPT
     !.error = <<"GitHub API error: ", ToString(a.status)>>,
     !.errorDetails = a.errorText]

\* the mutant of SearchSuccess: an empty result list is answered as an error
SearchSuccessOrNotFound(results) ==
  IF results = <<>>
  THEN [Described(404) EXCEPT !.error = <<"No results found">>]
  ELSE [Described(200) EXCEPT !.hasResults = TRUE, !.results = results]

\* lines 306-315
SearchSuccess(results) ==
  [Described(200) EXCEPT !.hasResults = TRUE, !.results = results]

HasRepo(item) == item.hasRepo

\* lines 185-315: the search request is answered
SearchAnswered(Answers) ==
  /\ route = "search" /\ pc = "awaitSearch"
  /\ \E a \in Answers :
       LET target == parsedResponse.searchPlan.searchTarget
           head == SliceTo(a.items, MAX_CONTENT_FETCHES)
           tail == SliceFrom(a.items, MAX_CONTENT_FETCHES)
       IN  /\ githubResponse' = a
           /\ IF a.kind = "throw"
              THEN /\ response' = CatchSearch(a.errorText)
                   /\ pc' = "done"
                   /\ UNCHANGED <<tasks, remainingItems, calls>>
              ELSE IF ~Ok(a)
              THEN /\ response' = SearchErrorResponse(a)
                   /\ pc' = "done"
                   /\ UNCHANGED <<tasks, remainingItems, calls>>
              ELSE IF ~a.bodyOk
              THEN /\ response' = CatchSearch("Unexpected token < in JSON")
                   /\ pc' = "done"
                   /\ UNCHANGED <<tasks, remainingItems, calls>>
              ELSE IF target = "code" /\ a.hasItems
              THEN \* every task of the head runs up to its fetch, then
                   \* the tail is mapped; a tail hit without repository
                   \* data throws into the outer catch
                   /\ tasks' = [i \in 1..Len(head) |-> Pending]
                   /\ calls' = calls \o [i \in 1..Len(head) |-> ContentCall(head[i].id)]
                   /\ IF \A i \in 1..Len(tail) : HasRepo(tail[i])
                      THEN /\ remainingItems' = [i \in 1..Len(tail) |-> RemainingItem(tail[i])]
                           /\ pc' = "awaitAll"
                           /\ response' = response
                      ELSE /\ remainingItems' = remainingItems
                           /\ pc' = "done"
                           /\ response' = CatchSearch(TYPEERROR)
              ELSE IF target = "repositories" /\ a.hasItems
              THEN /\ IF \A i \in 1..Len(a.items) : HasRepo(a.items[i])
                      THEN response' = SearchSuccess([i \in 1..Len(a.items) |-> RepoItem(a.items[i])])
                      ELSE response' = CatchSearch(TYPEERROR)
                   /\ pc' = "done"
                   /\ UNCHANGED <<tasks, remainingItems, calls>>
              ELSE /\ response' = SearchSuccess(<<>>)
                   /\ pc' = "done"
                   /\ UNCHANGED <<tasks, remainingItems, calls>>
  /\ caught' = CaughtOf(response', caught)
  /\ UNCHANGED <<ui, route, body, searchQuery, previous, firstSettled, text, parsedResponse>>

\* the position of the task that settled first, once task i settles
FirstOf(i) == IF firstSettled = 0 THEN i ELSE firstSettled

\* the content fetch of the hit does not yield a body: a response that is
\* not ok (233), a rejected fetch or an unparsable body (269)
ContentFailed(item) == item.res \in {"http404", "neterr", "badjson"}

\* the mutant of SettleTask: a failing fetch also ends the pending siblings
SettleTaskCancelsSiblings(ts, i, item) ==
  [j \in 1..Len(ts) |->
     IF j = i \/ (ContentFailed(item) /\ ts[j].st = "pending")
     THEN EnrichTask(item) ELSE ts[j]]

\* the callback of hit i returns or throws: only the promise of hit i changes
SettleTask(ts, i, item) == [ts EXCEPT ![i] = EnrichTask(item)]

\* the mutant of finalResults: the value of the promise that settled first
\* comes first
finalResultsByCompletion(ts, rest) ==
  IF firstSettled = 0 THEN rest
  ELSE <<ts[firstSettled].value>>
         \o [i \in 1..(Len(ts) - 1) |-> ts[IF i < firstSettled THEN i ELSE i + 1].value]
         \o rest

\* lines 292-295: the values of Promise.all by position, then the remaining items
finalResults(ts, rest) == [i \in 1..Len(ts) |-> ts[i].value] \o rest

\* lines 222-280: the task of hit i settles; a rejection rejects Promise.all
\* at once and the outer catch answers
ContentSettles ==
  /\ route = "search"
  /\ \E i \in 1..Len(tasks) :
       /\ tasks[i].st = "pending"
       /\ tasks' = SettleTask(tasks, i, githubResponse.items[i])
       /\ firstSettled' = FirstOf(i)
       /\ IF tasks'[i].st = "rejected" /\ pc = "awaitAll"
          THEN /\ response' = CatchSearch(TYPEERROR)
               /\ pc' = "done"
          ELSE UNCHANGED <<response, pc>>
  /\ caught' = CaughtOf(response', caught)
  /\ UNCHANGED <<ui, route, body, searchQuery, previous, text, parsedResponse, githubResponse, remainingItems, calls>>

\* lines 292-315: Promise.all is fulfilled and the handler returns
SearchReturns ==
  /\ route = "search" /\ pc = "awaitAll"
  /\ \A i \in 1..Len(tasks) : tasks[i].st = "fulfilled"
  /\ response' = SearchSuccess(finalResults(tasks, remainingItems))
  /\ pc' = "done"
  /\ caught' = CaughtOf(response', caught)
  /\ UNCHANGED <<ui, route, body, searchQuery, previous, firstSettled, text, parsedResponse, githubResponse, tasks, remainingItems, calls>>

(***************************************************************************)
(* The pattern-comparison handler: POST of pattern-analyzer/route.ts.      *)
(***************************************************************************)
MAX_RESULTS == 10

\* the outer catch of the pattern handler
CatchPattern(msg) == ErrorResponse(500, <<PREFIXPATTERN, msg>>)

\* s.replace(/<pat>\s*/g, "")
RECURSIVE ReplaceAllWS(_, _)
ReplaceAllWS(s, pat) ==
  IF s = <<>> THEN <<>>
  ELSE IF StartsWith(s, pat)
       THEN ReplaceAllWS(TrimStart(Drop(s, Len(pat))), pat)
       ELSE <<Head(s)>> \o ReplaceAllWS(Tail(s), pat)

\* s.replace(/<pat>\s*$/g, ""): the leftmost pat that only white space follows
RECURSIVE ReplaceAtEnd(_, _)
ReplaceAtEnd(s, pat) ==
  IF s = <<>> THEN <<>>
  ELSE IF StartsWith(s, pat) /\ TrimStart(Drop(s, Len(pat))) = <<>> THEN <<>>
       ELSE <<Head(s)>> \o ReplaceAtEnd(Tail(s), pat)

\* analyzeCodePatterns, lines 230-233
SanitizeAnalysis(raw) == Trim(ReplaceAtEnd(ReplaceAllWS(raw, FENCEJSON), FENCE))

AnalysisFields == {"insights", "technicalAnalysis", "bestPractices",
                   "improvementAreas", "overallScore"}

AnalysisMembers ==
  <<Member("insights", "text"), Member("technicalAnalysis", "text"),
    Member("bestPractices", "text"), Member("improvementAreas", "text"),
    Member("overallScore", "85")>>

AnalysisDoc(ms) == <<LBRACE>> \o ms \o <<RBRACE>>

\* the text the planner returns for a hit
AnalysisText(item) ==
  CASE item.llm = "json" -> AnalysisDoc(AnalysisMembers)
    [] item.llm = "fenced" ->
         FENCEJSON \o <<NL>> \o AnalysisDoc(AnalysisMembers) \o <<NL>> \o FENCE
    [] item.llm = "barefence" ->
         FENCE \o <<NL>> \o AnalysisDoc(AnalysisMembers) \o <<NL>> \o FENCE
    [] item.llm = "noscore" -> AnalysisDoc(Without(AnalysisMembers, "overallScore"))
    [] item.llm = "bigscore" ->
         AnalysisDoc(Without(AnalysisMembers, "overallScore") \o <<Member("overallScore", "150")>>)
    [] item.llm = "textscore" ->
         AnalysisDoc(Without(AnalysisMembers, "overallScore") \o <<Member("overallScore", "high")>>)
    [] item.llm = "noinsights" -> AnalysisDoc(Without(AnalysisMembers, "insights"))
    [] OTHER -> <<LETTER, SPACE, LETTER>>

\* the catch of analyzeCodePatterns, lines 240-248
FailedAnalysis ==
  [f \in AnalysisFields |->
     CASE f = "insights" -> "Failed to analyze code patterns"
       [] f = "technicalAnalysis" -> "Analysis could not be completed due to a technical error."
       [] f = "bestPractices" -> "Analysis was not successful, please try again."
       [] f = "improvementAreas" -> "Could not identify improvement areas due to analysis failure."
       [] OTHER -> "0"]

\* the mutant of analyzeCodePatterns: no catch, nothing stands in for an
\* answer that was not parsed
analyzeCodePatternsUnchecked(item) ==
  [f \in AnalysisFields |->
     Lookup(JSONparse(SanitizeAnalysis(AnalysisText(item))).rest, f)]

\* analyzeCodePatterns, lines 223-249: what the call resolves to
analyzeCodePatterns(item) ==
  IF item.llm = "throw" THEN FailedAnalysis
  ELSE LET parsed == JSONparse(SanitizeAnalysis(AnalysisText(item)))
       IN  IF ~parsed.ok THEN FailedAnalysis
           ELSE [f \in AnalysisFields |-> Lookup(parsed.rest, f)]

\* repoResponse.json(): the response is used whatever its status
RepoData(item) ==
  IF item.repo = "ok"
  THEN [name |-> "repo", full_name |-> "owner/repo", stars |-> "12"]
  ELSE [name |-> undefined, full_name |-> undefined, stars |-> undefined]

\* line 118-120: decoded whatever the declared encoding
PatternContent(item) ==
  LET d == ContentData(item)
  IN  IF d.hasContent THEN BufferFromBase64(d) ELSE EMPTYTEXT

Comparison(item) ==
  [null |-> FALSE, id |-> item.id, codeContent |-> PatternContent(item),
   repository |-> RepoData(item), analysis |-> analyzeCodePatterns(item)]

Null ==
  [null |-> TRUE, id |-> 0, codeContent |-> EMPTYTEXT,
   repository |-> [name |-> undefined, full_name |-> undefined, stars |-> undefined],
   analysis |-> FailedAnalysis]

\* a task of the pattern route: stage is the call it waits for
Waiting(stage) == [st |-> stage, value |-> Null]

\* the characters of the class [A-Za-z0-9_.-]
SLASH == Ch("/")
DOT == Ch(".")
IsNameChar(t) == t \in {LETTER, DOT, Ch("-"), Ch("_"), Ch("4"), Ch("2")}

\* String(v) of a template literal or of RegExp.prototype.test
JSToString(v) ==
  CASE v.type = "string" -> v.str
    [] v.type = "number" -> <<Ch("4"), Ch("2")>>
    [] v.type = "null" -> <<Ch("n"), Ch("u"), Ch("l"), Ch("l")>>
    [] OTHER -> <<Ch("u"), Ch("n"), Ch("d"), Ch("e"), Ch("f")>>

\* the mutant of repoPatternTest: any filter with a slash passes
repoPatternTestAnySlash(s) == \E i \in 1..Len(s) : s[i] = SLASH

\* /^[A-Za-z0-9_.-]+\/[A-Za-z0-9_.-]+$/.test(s): the text is matched from
\* left to right; st is "owner" before the slash and "repo" after it, n the
\* number of characters of the current part
RECURSIVE repoPatternMatch(_, _, _)
repoPatternMatch(s, st, n) ==
  IF s = <<>> THEN st = "repo" /\ n > 0
  ELSE IF IsNameChar(Head(s)) THEN repoPatternMatch(Tail(s), st, n + 1)
  ELSE IF Head(s) = SLASH /\ st = "owner" /\ n > 0 THEN repoPatternMatch(Tail(s), "repo", 0)
  ELSE FALSE

repoPatternTest(s) == repoPatternMatch(s, "owner", 0)

\* s.substring(from, to)
Substring(s, from, to) == SubSeq(s, from + 1, Min(to, Len(s)))

\* lines 43-65: the pattern cut to 200 characters, then the qualifiers
BuildSearchQuery(b) ==
  [codePattern |-> Substring(b.input.str, 0, 200),
   language |-> IF Falsy(b.language) THEN <<>> ELSE JSToString(b.language),
   user |-> IF Falsy(b.userFilter) THEN <<>> ELSE JSToString(b.userFilter),
   repo |-> IF ~Falsy(b.repoFilter) /\ repoPatternTest(JSToString(b.repoFilter))
            THEN JSToString(b.repoFilter) ELSE <<>>]

\* lines 27-78: the body is read and checked, the search request is sent
PatternReceive ==
  /\ route = "pattern" /\ pc = "start"
  /\ IF ~body.json
     THEN /\ response' = CatchPattern("Unexpected end of JSON input")
          /\ pc' = "done"
          /\ calls' = calls
     ELSE IF InvalidInput(body.input)
     THEN /\ response' = ErrorResponse(400,
                 <<"Code pattern is required and must be a non-empty string">>)
          /\ pc' = "done"
          /\ calls' = calls
     ELSE /\ calls' = Append(calls, SearchCall("code", "pattern"))
          /\ pc' = "awaitSearch"
          /\ response' = response
  /\ searchQuery' = IF body.json /\ ~InvalidInput(body.input)
                    THEN BuildSearchQuery(body) ELSE searchQuery
  /\ caught' = CaughtOf(response', caught)
  /\ UNCHANGED <<ui, route, body, previous, firstSettled, text, parsedResponse, githubResponse, tasks, remainingItems>>

\* lines 80-87: a response that is not ok
PatternErrorResponse(a) ==
  ErrorResponse(a.status, <<"GitHub API error: ", ToString(a.status)>>)

\* lines 165-169
PatternSuccess(results) ==
  [NoResponse EXCEPT !.status = 200, !.hasResults = TRUE, !.results = results]

\* lines 72-108: the search request is answered; the task of every hit
\* within the bound runs up to its content fetch
PatternSearchAnswered(Answers) ==
  /\ route = "pattern" /\ pc = "awaitSearch"
  /\ \E a \in Answers :
       LET head == SliceTo(a.items, MAX_RESULTS)
       IN  /\ githubResponse' = a
           /\ IF a.kind = "throw"
              THEN /\ response' = CatchPattern(a.errorText)
                   /\ pc' = "done"
                   /\ UNCHANGED <<tasks, calls>>
              ELSE IF ~Ok(a)
              THEN /\ response' = PatternErrorResponse(a)
                   /\ pc' = "done"
                   /\ UNCHANGED <<tasks, calls>>
              ELSE IF ~a.bodyOk
              THEN /\ response' = CatchPattern("Unexpected token < in JSON")
                   /\ pc' = "done"
                   /\ UNCHANGED <<tasks, calls>>
              ELSE /\ tasks' = [i \in 1..Len(head) |-> Waiting("content")]
                   /\ calls' = calls \o [i \in 1..Len(head) |-> ContentCall(head[i].id)]
                   /\ pc' = "awaitAll"
                   /\ response' = response
  /\ caught' = CaughtOf(response', caught)
  /\ UNCHANGED <<ui, route, body, searchQuery, previous, firstSettled, text, parsedResponse, remainingItems>>

\* the mutant of FetchAborts: the status of the content response is not
\* looked at
FetchAbortsOnlyOnThrow(item) == item.res \in {"neterr", "badjson"} \/ ~item.hasRepo

\* lines 102-123 and 156-158: the task ends with null at the content
\* response that is not ok (110-113) or in the catch, reached from a
\* rejected fetch, a body that is not JSON or a hit without repository
FetchAborts(item) == item.res \in {"neterr", "http404", "badjson"} \/ ~item.hasRepo

\* lines 102-130: the content fetch of task i settles
PatternContentSettles ==
  /\ route = "pattern"
  /\ \E i \in 1..Len(tasks) :
       LET item == githubResponse.items[i]
       IN  /\ tasks[i].st = "content"
           /\ IF FetchAborts(item)
              THEN /\ tasks' = [tasks EXCEPT ![i] = [st |-> "fulfilled", value |-> Null]]
                   /\ calls' = calls
                   /\ firstSettled' = FirstOf(i)
              ELSE /\ tasks' = [tasks EXCEPT ![i] = Waiting("repo")]
                   /\ calls' = Append(calls, RepoCall(item.id))
                   /\ firstSettled' = firstSettled
  /\ UNCHANGED <<ui, route, body, searchQuery, previous, pc, text, parsedResponse, githubResponse, remainingItems,
                 response, caught>>

\* lines 124-138 and 185-224: the repository fetch of task i settles
PatternRepoSettles ==
  /\ route = "pattern"
  /\ \E i \in 1..Len(tasks) :
       LET item == githubResponse.items[i]
       IN  /\ tasks[i].st = "repo"
           /\ IF item.repo = "neterr"
              THEN /\ tasks' = [tasks EXCEPT ![i] = [st |-> "fulfilled", value |-> Null]]
                   /\ calls' = calls
                   /\ firstSettled' = FirstOf(i)
              ELSE /\ tasks' = [tasks EXCEPT ![i] = Waiting("planner")]
                   /\ calls' = Append(calls, AnalysisCall(item.id))
                   /\ firstSettled' = firstSettled
  /\ UNCHANGED <<ui, route, body, searchQuery, previous, pc, text, parsedResponse, githubResponse, remainingItems,
                 response, caught>>

\* lines 135-155 and 224-249: the planner call of task i settles
PatternAnalysisSettles ==
  /\ route = "pattern"
  /\ \E i \in 1..Len(tasks) :
       /\ tasks[i].st = "planner"
       /\ tasks' = [tasks EXCEPT ![i] =
                      [st |-> "fulfilled", value |-> Comparison(githubResponse.items[i])]]
       /\ firstSettled' = FirstOf(i)
  /\ UNCHANGED <<ui, route, body, searchQuery, previous, pc, text, parsedResponse, githubResponse, remainingItems,
                 response, caught, calls>>

\* the mutant of FilterBoolean: the entries that are kept come out last first
RECURSIVE FilterBooleanReversed(_)
FilterBooleanReversed(rs) ==
  IF rs = <<>> THEN <<>>
  ELSE IF Head(rs).null THEN FilterBooleanReversed(Tail(rs))
       ELSE FilterBooleanReversed(Tail(rs)) \o <<Head(rs)>>

\* fullResults.filter(Boolean)
RECURSIVE FilterBoolean(_)
FilterBoolean(rs) ==
  IF rs = <<>> THEN <<>>
  ELSE IF Head(rs).null THEN FilterBoolean(Tail(rs))
       ELSE <<Head(rs)>> \o FilterBoolean(Tail(rs))

\* lines 96-169: Promise.all is fulfilled and the handler returns
PatternReturns ==
  /\ route = "pattern" /\ pc = "awaitAll"
  /\ \A i \in 1..Len(tasks) : tasks[i].st = "fulfilled"
  /\ response' = PatternSuccess(FilterBoolean([i \in 1..Len(tasks) |-> tasks[i].value]))
  /\ pc' = "done"
  /\ caught' = CaughtOf(response', caught)
  /\ UNCHANGED <<ui, route, body, searchQuery, previous, firstSettled, text, parsedResponse, githubResponse, tasks, remainingItems, calls>>

(***************************************************************************)
(* The specifications.                                                     *)
(***************************************************************************)
Routes == {"search", "pattern"}

\* the hits of the pattern route: a hit is one of a few profiles
PatternProfiles ==
  {[res |-> "base64", hasRepo |-> TRUE, repo |-> "ok", llm |-> an] : an \in AnalysisKinds}
    \cup {[res |-> r, hasRepo |-> TRUE, repo |-> "ok", llm |-> "json"] :
            r \in ResourceKinds \ {"base64"}}
    \cup {[res |-> "base64", hasRepo |-> TRUE, repo |-> rp, llm |-> "json"] :
            rp \in RepoKinds \ {"ok"}}
    \cup {[res |-> "base64", hasRepo |-> FALSE, repo |-> "ok", llm |-> "json"]}

\* the profiles that are combined freely
PatternCore ==
  {pr \in PatternProfiles :
     \/ pr.res = "http404"
     \/ pr.res = "base64" /\ pr.hasRepo /\ pr.repo = "ok" /\ pr.llm \in {"json", "prose"}}

RECURSIVE PatternHitListsOfLen(_)
PatternHitListsOfLen(n) ==
  IF n = 0 THEN {<<>>}
  ELSE {Append(hs, PatternHit(n, pr.res, pr.hasRepo, pr.repo, pr.llm)) :
          hs \in PatternHitListsOfLen(n - 1), pr \in PatternCore}

\* n hits whose content, repository and comparison are all served
AllGoodPattern(n) == [i \in 1..n |-> PatternHit(i, "base64", TRUE, "ok", "json")]

\* the lists in which one hit is of any profile
PatternDeviantLists ==
  UNION {{[AllGoodPattern(n) EXCEPT ![p] = PatternHit(p, pr.res, pr.hasRepo, pr.repo, pr.llm)] :
            p \in 1..n, pr \in PatternProfiles} :
         n \in 1..MaxSmallHits}

PatternHitLists ==
  PatternDeviantLists \cup UNION {PatternHitListsOfLen(n) : n \in 0..MaxSmallHits}

PatternAnswers == FailedAnswers \cup OddAnswers \cup {ThrownAnswer}
                    \cup {OkAnswer(hs) : hs \in PatternHitLists}

Init == \E r \in Routes : Start(Bodies, r)

Next ==
  \/ SearchReceive
  \/ PlannerFails
  \/ PlannerAnswers(PlannerTexts)
  \/ SearchAnswered(SearchAnswers)
  \/ ContentSettles
  \/ SearchReturns
  \/ PatternReceive
  \/ PatternSearchAnswered(PatternAnswers)
  \/ PatternContentSettles
  \/ PatternRepoSettles
  \/ PatternAnalysisSettles
  \/ PatternReturns

Spec == Init /\ [][Next]_vars

\* the same request is sent again and the planner and the search answer as
\* before: the handler is back at line 213 with the same hit list
Rerun ==
  /\ route = "search" /\ pc = "done" /\ previous = NoResponse
  /\ parsedResponse.searchPlan.searchTarget = "code"
  /\ githubResponse.kind = "response" /\ Ok(githubResponse) /\ githubResponse.bodyOk
  /\ previous' = response
  /\ pc' = "awaitSearch"
  /\ response' = NoResponse
  /\ tasks' = <<>>
  /\ remainingItems' = <<>>
  /\ firstSettled' = 0
  /\ caught' = NoError
  /\ UNCHANGED <<ui, route, body, searchQuery, text, parsedResponse, githubResponse, calls>>

\* the search request of the second run is answered as in the first
SearchAnsweredAgain ==
  /\ previous # NoResponse
  /\ SearchAnswered({githubResponse})

\* the search route on long hit lists
InitEnrich == Start({Body(i) : i \in {JSUndefined, JSString(<<LETTER>>)}},
                    "search")

NextEnrich ==
  \/ SearchReceive
  \/ PlannerFails
  \/ PlannerAnswers(PlannerTextsFew)
  \/ previous = NoResponse /\ SearchAnswered(SearchAnswersLong)
  \/ ContentSettles
  \/ SearchReturns
  \/ Rerun
  \/ SearchAnsweredAgain

SpecEnrich == InitEnrich /\ [][NextEnrich]_vars

\* both routes on long hit lists
\* the long lists of the pattern route: the content of most hits is not
\* served; the first hit, hit MAX_RESULTS and the last hit are served whole
PatternLongHitLists ==
  {[i \in 1..n |->
      IF i \in {1, MAX_RESULTS, n}
      THEN PatternHit(i, "base64", TRUE, "ok", "json")
      ELSE PatternHit(i, "http404", TRUE, "ok", "json")] :
   n \in MAX_RESULTS..MaxHits}

PatternAnswersLong == FailedAnswers \cup {ThrownAnswer}
                        \cup {OkAnswer(hs) : hs \in PatternLongHitLists}

InitBatch == \E r \in Routes : Start({Body(JSString(<<LETTER>>))}, r)

NextBatch ==
  \/ SearchReceive
  \/ PlannerFails
  \/ PlannerAnswers(PlannerTextsFew)
  \/ SearchAnswered(SearchAnswersLong)
  \/ ContentSettles
  \/ SearchReturns
  \/ PatternReceive
  \/ PatternSearchAnswered(PatternAnswersLong)
  \/ PatternContentSettles
  \/ PatternRepoSettles
  \/ PatternAnalysisSettles
  \/ PatternReturns

SpecBatch == InitBatch /\ [][NextBatch]_vars

\* the pattern route on every short repository filter
FilterAlphabet == {LETTER, DOT, SLASH, SPACE}

RepoFilters ==
  {JSString(t) : t \in TextsUpTo(FilterAlphabet, MaxLen)}
    \cup {JSUndefined, JSNull, JSNumber(42)}

FilterBodies ==
  {[Body(JSString(<<LETTER>>)) EXCEPT !.language = l, !.userFilter = u, !.repoFilter = f] :
     l \in {JSUndefined, JSString(<<LETTER>>)},
     u \in {JSUndefined, JSString(<<LETTER, LETTER>>)},
     f \in RepoFilters}

PatternAnswersFew ==
  {FailedAnswer(422, "29", RESETHEADER, "Validation Failed"), ThrownAnswer,
   OkAnswer(<<>>), OkAnswer(AllGoodPattern(1))}

InitFilter == Start(FilterBodies, "pattern")

NextFilter ==
  \/ PatternReceive
  \/ PatternSearchAnswered(PatternAnswersFew)
  \/ PatternContentSettles
  \/ PatternRepoSettles
  \/ PatternAnalysisSettles
  \/ PatternReturns

SpecFilter == InitFilter /\ [][NextFilter]_vars

\* the search route on every short planner text
NextSanitize ==
  \/ SearchReceive
  \/ PlannerFails
  \/ PlannerAnswers(FreeTexts)
  \/ SearchAnswered(SearchAnswersFew)
  \/ ContentSettles
  \/ SearchReturns

SpecSanitize == InitEnrich /\ [][NextSanitize]_vars

(***************************************************************************)
(* The client components: the search page and the pattern analyzer         *)
(* interface.  A component sends its request to the handler of its route   *)
(* and holds results, isLoading and error.                                 *)
(***************************************************************************)
\* what a handler invocation owns, apart from its position
server == <<route, body, text, parsedResponse, githubResponse, tasks, remainingItems,
            response, caught, searchQuery, previous, firstSettled, calls>>

\* the component is mounted and no request has been sent yet
Mount(kind, r) ==
  /\ route = r
  /\ body = Body(JSUndefined)
  /\ pc = "idle"
  /\ text = <<>>
  /\ parsedResponse = SyntaxError
  /\ githubResponse = NoAnswer
  /\ tasks = <<>>
  /\ remainingItems = <<>>
  /\ response = NoResponse
  /\ caught = NoError
  /\ searchQuery = NoQuery
  /\ previous = NoResponse
  /\ firstSettled = 0
  /\ calls = <<>>
  /\ ui = [NoUI EXCEPT !.kind = kind]

\* fetch(url, { method: 'POST', body }): a new invocation of the handler
Fetch(b) ==
  /\ body' = b
  /\ pc' = "start"
  /\ text' = <<>>
  /\ parsedResponse' = SyntaxError
  /\ githubResponse' = NoAnswer
  /\ tasks' = <<>>
  /\ remainingItems' = <<>>
  /\ response' = NoResponse
  /\ caught' = NoError
  /\ searchQuery' = NoQuery
  /\ previous' = NoResponse
  /\ firstSettled' = 0
  /\ calls' = <<>>
  /\ UNCHANGED route

\* setError({ message, details, transformedQuery })
UIError(msg, det, tq) ==
  [null |-> FALSE, message |-> msg, details |-> det, transformedQuery |-> tq]

\* the message of the TypeError of a rejected fetch
FETCHFAILED == <<"Failed to fetch">>

\* what the user may have typed into the search bar
PageQueries == {<<LETTER>>, <<LETTER, SPACE>>, <<SPACE>>, <<>>}

\* the mutant of SearchEnabled: the search bar is not disabled while loading
SearchEnabledAlways(u, q) == Trim(q) # <<>>

\* SearchBar: the input is disabled={isLoading}, the button is
\* disabled={isLoading || !query.trim()}, handleSearch tests query.trim()
SearchEnabled(u, q) == ~u.isLoading /\ Trim(q) # <<>>

\* page.tsx 81-92: handleSearch up to the await of fetch
handleSearch ==
  /\ ui.kind = "page" /\ ui.submits < MaxSubmits
  /\ \E q \in PageQueries :
       /\ SearchEnabled(ui, q)
       /\ ui' = [ui EXCEPT !.query = q, !.isLoading = TRUE, !.error = nullError,
                           !.inflight = @ + 1, !.submits = @ + 1,
                           !.held = Len(ui.results)]
       /\ Fetch(Body(JSString(q)))

\* page.tsx 117-150: data.results.map(...)
ProcessedResults(rs) ==
  [i \in 1..Len(rs) |->
     [id |-> rs[i].id, path |-> rs[i].path,
      codeSnippet |-> [code |-> rs[i].code, lineStart |-> rs[i].lineStart,
                       lineEnd |-> rs[i].lineEnd],
      fullContent |-> rs[i].fullContent]]

\* page.tsx 93-163: the response has arrived and handleSearch runs on, to
\* the return of the branch of a response that is not ok or to the end
SearchResolved ==
  /\ ui.kind = "page" /\ ui.inflight > 0 /\ pc = "done"
  /\ ui' = IF ~Ok(response)
           THEN [ui EXCEPT
                   !.queryTransformation = response.transformedQuery,
                   !.error = UIError(IF response.error = <<>>
                                     THEN <<"Failed to search code">> ELSE response.error,
                                     response.errorDetails, response.transformedQuery),
                   !.results = <<>>,
                   !.isLoading = FALSE, !.inflight = @ - 1, !.last = "error"]
           ELSE [ui EXCEPT
                   !.results = ProcessedResults(response.results),
                   !.queryTransformation = response.transformedQuery,
                   !.isLoading = FALSE, !.inflight = @ - 1, !.last = "success"]
  /\ pc' = "idle"
  /\ UNCHANGED server

\* the mutant of SearchRejected: the catch leaves the results as they are
SearchRejectedKeepsResults ==
  /\ ui.kind = "page" /\ ui.inflight > 0 /\ pc # "idle"
  /\ ui' = [ui EXCEPT !.error = UIError(FETCHFAILED, undefined, undefined),
                      !.isLoading = FALSE, !.inflight = @ - 1, !.last = "thrown"]
  /\ pc' = "idle"
  /\ UNCHANGED server

\* page.tsx 153-163: fetch is rejected, the catch and the finally run
SearchRejected ==
  /\ ui.kind = "page" /\ ui.inflight > 0 /\ pc # "idle"
  /\ ui' = [ui EXCEPT !.error = UIError(FETCHFAILED, undefined, undefined),
                      !.results = <<>>,
                      !.isLoading = FALSE, !.inflight = @ - 1, !.last = "thrown"]
  /\ pc' = "idle"
  /\ UNCHANGED server

\* what the user may have typed into the code editor
PatternCodes == {<<LETTER>>, <<LETTER, NL>>, <<SPACE>>, <<>>}

\* CodePatternInput: the button is disabled={isLoading || !code.trim()},
\* handleSubmit returns when !code.trim(); the form is the content of the
\* input tab, which is rendered while that tab is the active one
PatternSubmitEnabled(u, c) == u.activeTab = "input" /\ ~u.isLoading /\ Trim(c) # <<>>

\* handlePatternSubmit up to the await of fetch
handlePatternSubmit ==
  /\ ui.kind = "analyzer" /\ ui.submits < MaxSubmits
  /\ \E c \in PatternCodes :
       /\ PatternSubmitEnabled(ui, c)
       /\ ui' = [ui EXCEPT !.query = c, !.isLoading = TRUE, !.error = nullError,
                           !.inflight = @ + 1, !.submits = @ + 1,
                           !.held = Len(ui.results)]
       /\ Fetch([Body(JSString(c)) EXCEPT !.language = JSString(<<>>)])

\* the response has arrived and handlePatternSubmit runs on to its end: a
\* response that is not ok is thrown as an Error and caught
PatternResolved ==
  /\ ui.kind = "analyzer" /\ ui.inflight > 0 /\ pc = "done"
  /\ ui' = IF ~Ok(response)
           THEN [ui EXCEPT
                   !.error = UIError(IF response.error = <<>>
                                     THEN <<"Failed to analyze code pattern">>
                                     ELSE response.error, undefined, undefined),
                   !.isLoading = FALSE, !.inflight = @ - 1, !.last = "error"]
           ELSE [ui EXCEPT
                   !.results = response.results,
                   !.activeTab = IF response.results # <<>> THEN "results" ELSE @,
                   !.isLoading = FALSE, !.inflight = @ - 1, !.last = "success"]
  /\ pc' = "idle"
  /\ UNCHANGED server

\* fetch is rejected, the catch and the finally run
PatternRejected ==
  /\ ui.kind = "analyzer" /\ ui.inflight > 0 /\ pc # "idle"
  /\ ui' = [ui EXCEPT !.error = UIError(FETCHFAILED, undefined, undefined),
                      !.isLoading = FALSE, !.inflight = @ - 1, !.last = "thrown"]
  /\ pc' = "idle"
  /\ UNCHANGED server

\* the trigger of the results tab is disabled={results.length === 0}
TabEnabled(u, tab) == tab = "input" \/ u.results # <<>>

\* <Tabs value={activeTab} onValueChange={setActiveTab}>: the user picks the
\* other tab
onValueChange ==
  /\ ui.kind = "analyzer"
  /\ \E tab \in {"input", "results"} :
       /\ tab # ui.activeTab /\ TabEnabled(ui, tab)
       /\ ui' = [ui EXCEPT !.activeTab = tab]
  /\ UNCHANGED <<server, pc>>

\* what the pattern analyzer interface renders
Displayed(u) ==
  IF u.activeTab = "input" THEN "form"
  ELSE IF u.isLoading THEN "spinner"
  ELSE IF u.results # <<>> THEN "results"
  ELSE IF ~u.error.null THEN "error"
  ELSE "empty"

\* the search page and the handler of the search route
InitPage == Mount("page", "search")

\* the promise of fetch settles and handleSearch runs on
SearchSettles == SearchResolved \/ SearchRejected

NextPage ==
  \/ handleSearch
  \/ SearchReceive
  \/ PlannerFails
  \/ PlannerAnswers(PlannerTextsFew)
  \/ SearchAnswered(SearchAnswersFew)
  \/ ContentSettles
  \/ SearchReturns
  \/ SearchSettles

\* the promise of a fetch does not stay pending for ever: it is fulfilled
\* with the response of the handler or rejected, and the event loop runs the
\* continuation of a settled promise
SpecPage == InitPage /\ [][NextPage]_vars /\ WF_vars(SearchSettles)

\* the pattern analyzer interface and the handler of the pattern route
InitAnalyzer == Mount("analyzer", "pattern")

\* the promise of fetch settles and handlePatternSubmit runs on
PatternSettles == PatternResolved \/ PatternRejected

NextAnalyzer ==
  \/ handlePatternSubmit
  \/ onValueChange
  \/ PatternReceive
  \/ PatternSearchAnswered(PatternAnswersFew)
  \/ PatternContentSettles
  \/ PatternRepoSettles
  \/ PatternAnalysisSettles
  \/ PatternReturns
  \/ PatternSettles

SpecAnalyzer == InitAnalyzer /\ [][NextAnalyzer]_vars /\ WF_vars(PatternSettles)

(***************************************************************************)
(* The claims.                                                             *)
(***************************************************************************)
\* the value is missing, no string, empty or white space only
Unusable(v) ==
  v.type # "string" \/ \A i \in 1..Len(v.str) : v.str[i] \in {SPACE, NL}

IssuedTo(api) == {i \in 1..Len(calls) : calls[i].api = api}

\* the planner call of the search route was rejected
PlannerFailed == route = "search" /\ pc = "done" /\ caught \in PlannerErrors

\* the planner of the search route answered with a text
PlannerAnswered ==
  /\ route = "search"
  /\ pc \notin {"start", "awaitPlanner"}
  /\ calls # <<>>
  /\ caught \notin PlannerErrors

\* C1: a request whose query (search route) or code pattern (pattern route)
\* is missing, no string, empty or white space only is answered with
\* status 400 by the first step of the handler, and no outbound call is
\* ever issued for it
C1_InvalidInputRejected ==
  (body.json /\ Unusable(body.input)) =>
     /\ calls = <<>>
     /\ pc \in {"start", "done"}
     /\ pc = "done" => /\ response.status = 400
                       /\ response.error # <<>>
                       /\ ~response.hasResults

C1_Witness ==
  /\ route = "pattern" /\ pc = "done"
  /\ body.input = JSString(<<SPACE, SPACE>>)
  /\ response.status = 400 /\ calls = <<>>

WellFormedPlan(p) ==
  /\ p.ok /\ p.hasPlan
  /\ p.searchPlan.searchTarget \in {"code", "repositories", "none"}
  /\ \A f \in PlanFields : p.searchPlan[f] # undefined

\* C2: once the planner has answered, either the plan is well formed (its
\* target is code, repositories or none and its five fields are present)
\* or the request has ended in an error without any search request
C2_PlanWellFormedOrError ==
  PlannerAnswered =>
     \/ WellFormedPlan(parsedResponse)
     \/ /\ pc = "done" /\ response.status = 500
        /\ IssuedTo("search") = {} /\ IssuedTo("content") = {}

ParsedIntoPlan(p) ==
  p.ok /\ p.hasPlan /\ \A f \in PlanFields : p.searchPlan[f] # undefined

\* C3: when the answer of the planner does not parse, or parses to a plan
\* that lacks a required field, the request ends with an error result and
\* issues neither a search request nor a content fetch
C3_UnparsedNeverSearches ==
  (PlannerAnswered /\ ~ParsedIntoPlan(parsedResponse)) =>
     /\ pc = "done"
     /\ response.status = 500 /\ response.error # <<>> /\ ~response.hasResults
     /\ IssuedTo("search") = {} /\ IssuedTo("content") = {}

\* C4 as stated: a failed planner call ends the request with an error that
\* carries the upstream status, and no search request is sent
C4_CarriesUpstreamStatus ==
  (PlannerFailed /\ caught.status # 0) =>
     /\ response.status = caught.status
     /\ IssuedTo("search") = {}

\* C4, amended: a failed planner call ends the request with status 500 and
\* the message of the thrown error behind a fixed prefix; no plan exists and
\* the planner call is the only outbound call of the request
C4_PlannerFailureIs500 ==
  PlannerFailed =>
     /\ response.status = 500
     /\ response.error = <<PREFIXSEARCH, caught.message>>
     /\ ~response.hasResults
     /\ parsedResponse = SyntaxError
     /\ githubResponse = NoAnswer
     /\ calls = <<PlannerCall>>

C4_Witness == PlannerFailed /\ caught.status = 429 /\ response.status = 500

\* C5: a plan with target none ends the request at once with status 200,
\* no result, an empty transformed query and the assessment of the plan as
\* explanation; the planner call stays the only outbound call
C5_NoneShortCircuits ==
  (PlannerAnswered /\ parsedResponse.hasPlan
     /\ parsedResponse.searchPlan.searchTarget = "none") =>
     /\ pc = "done"
     /\ response.status = 200 /\ response.error = <<>>
     /\ response.hasResults /\ response.results = <<>>
     /\ response.transformedQuery = ""
     /\ response.explanation = parsedResponse.searchPlan.queryAssessment
     /\ response.endpoint = "none"
     /\ calls = <<PlannerCall>>
     /\ tasks = <<>>

C5_Witness ==
  /\ PlannerAnswered /\ pc = "done"
  /\ parsedResponse.searchPlan.searchTarget = "none"
  /\ response.explanation = "assessment" /\ response.results = <<>>

\* C6: when the text the planner answered with is JSON, what the handler
\* parsed from it equals what sanitizing and parsing yields for the same
\* text between an opening and a closing fence, tagged or not
C6_FenceInsensitive ==
  (PlannerAnswered /\ JSONparse(text).ok) =>
     \A f \in Fences : JSONparse(cleanedText(Wrap(f, text))) = parsedResponse

C6_Witness ==
  /\ PlannerAnswered
  /\ text = PlanDoc(FullMembers("none") \o FENCE)
  /\ parsedResponse.hasPlan /\ parsedResponse.rest = FullMembers("none")

RateLimited(r) == r.kind = "response" /\ r.status = 403 /\ r.remaining = "0"

\* C7: a search answered with status 403 and a remaining quota of zero ends
\* in the rate-limit outcome, which names the parsed reset time and differs
\* from the outcome of any other failed search
C7_RateLimitedOutcome ==
  (pc = "done" /\ RateLimited(githubResponse)) =>
     /\ response.error = githubFetch(githubResponse)
     /\ response.error[2] = ResetDate(githubResponse.reset)

\* C8: on both routes a search response that is not ok ends the request
\* with the upstream status and the upstream error text, never with a
\* result list, and no per-item task is started
C8_FailedSearchPreserved ==
  (pc = "done" /\ githubResponse.kind = "response" /\ ~Ok(githubResponse)) =>
     /\ response.status = githubResponse.status
     /\ response.errorDetails = githubResponse.errorText
     /\ ~response.hasResults
     /\ tasks = <<>> /\ IssuedTo("content") = {}

EmptyHitList(r) ==
  r.kind = "response" /\ Ok(r) /\ r.bodyOk /\ r.hasItems /\ r.items = <<>>

\* C9: a successful search response with an empty item list ends the search
\* request with status 200, an empty result list, the query string of the
\* plan and its rationale, and without any content fetch
C9_EmptyListIsSuccess ==
  (route = "search" /\ EmptyHitList(githubResponse)) =>
     /\ tasks = <<>> /\ IssuedTo("content") = {}
     /\ pc \in {"awaitAll", "done"}
     /\ pc = "done" =>
          /\ response.status = 200 /\ response.error = <<>>
          /\ response.hasResults /\ response.results = <<>>
          /\ response.transformedQuery = parsedResponse.searchPlan.githubQueryString
          /\ response.explanation = parsedResponse.searchPlan.constructionRationale

C9_Witness ==
  /\ route = "search" /\ pc = "done" /\ EmptyHitList(githubResponse)
  /\ parsedResponse.searchPlan.searchTarget = "code"
  /\ response.status = 200 /\ response.transformedQuery = QUERYSTRING

\* a batch of content hits: a successful code search of well-formed hits
ContentBatch ==
  /\ route = "search"
  /\ parsedResponse.searchPlan.searchTarget = "code"
  /\ githubResponse.kind = "response" /\ Ok(githubResponse)
  /\ githubResponse.bodyOk /\ githubResponse.hasItems
  /\ \A i \in 1..Len(githubResponse.items) : githubResponse.items[i].hasRepo

\* the result is the placeholder of a hit beyond the bound.  Both lines are
\* compared: the snippet of a fetched file is the head of its content, so
\* no fetched file yields this pair
LimitReached(r) ==
  r.code = <<"// Snippet not fetched (limit reached)">> /\ r.fullContent = LIMITCONTENT

\* C10: for a batch of k hits the response holds exactly k results, result
\* i being the one of hit i, and the results marked as not fetched are
\* exactly those at the positions beyond MAX_CONTENT_FETCHES: none when
\* k <= 10, the last k - 10 otherwise
C10_LimitPartition ==
  (ContentBatch /\ pc = "done") =>
     LET k == Len(githubResponse.items)
     IN  /\ response.status = 200
         /\ Len(response.results) = k
         /\ \A i \in 1..k :
              /\ response.results[i].id = githubResponse.items[i].id
              /\ LimitReached(response.results[i]) <=> i > MAX_CONTENT_FETCHES
         /\ Cardinality({i \in 1..k : LimitReached(response.results[i])})
              = (IF k <= MAX_CONTENT_FETCHES THEN 0 ELSE k - MAX_CONTENT_FETCHES)

C10_Witness ==
  /\ ContentBatch /\ pc = "done"
  /\ Len(response.results) = MAX_CONTENT_FETCHES + 1
  /\ githubResponse.items[1].res = "neterr"
  /\ LimitReached(response.results[MAX_CONTENT_FETCHES + 1])

\* the hits within the bound whose content fetch fails
FailingHits ==
  {i \in 1..Min(Len(githubResponse.items), MAX_CONTENT_FETCHES) :
     ContentFailed(githubResponse.items[i])}

\* the result carries the placeholder of a failed fetch
EncodesFailure(r) ==
  \/ /\ r.code = <<"// Code snippet could not be fetched.">>
     /\ r.fullContent = <<"// Full content could not be fetched.">>
  \/ \E m \in {"fetch failed", "Unexpected token < in JSON"} :
        /\ r.code = <<ErrorLine("snippet", m)>>
        /\ r.fullContent = <<ErrorLine("content", m)>>

\* C11: when exactly one fetch of a batch of k hits fails, the response
\* still holds k results, the result of the failing hit carries the
\* placeholder of its failure, and the result of every other hit within
\* the bound is the one its own item and fetch outcome determine
C11_OneFailureIsolated ==
  (ContentBatch /\ pc = "done" /\ Cardinality(FailingHits) = 1) =>
     /\ response.status = 200
     /\ Len(response.results) = Len(githubResponse.items)
     /\ \A i \in 1..Min(Len(githubResponse.items), MAX_CONTENT_FETCHES) :
          /\ response.results[i].id = githubResponse.items[i].id
          /\ IF i \in FailingHits
             THEN EncodesFailure(response.results[i])
             ELSE /\ ~EncodesFailure(response.results[i])
                  /\ response.results[i] = EnrichTask(githubResponse.items[i]).value

C11_Witness ==
  /\ ContentBatch /\ pc = "done"
  /\ Len(githubResponse.items) = MAX_CONTENT_FETCHES
  /\ FailingHits = {1} /\ firstSettled = 1
  /\ githubResponse.items[1].res = "neterr"
  /\ response.results[MAX_CONTENT_FETCHES].fullContent = <<"code", "code">>

\* C12: whichever task settled first, result i of the response is built
\* from hit i: the results of the hits within the bound come first, in the
\* order of the hits, followed by the results of the remaining hits
C12_OutputInInputOrder ==
  (ContentBatch /\ pc = "done") =>
     LET k == Len(githubResponse.items)
         n == Min(k, MAX_CONTENT_FETCHES)
     IN  /\ Len(response.results) = k
         /\ \A i \in 1..k : response.results[i].id = githubResponse.items[i].id
         /\ SubSeq(response.results, 1, n) = [i \in 1..n |-> tasks[i].value]
         /\ SubSeq(response.results, n + 1, k) = remainingItems
         /\ \A i \in 1..Len(remainingItems) :
              remainingItems[i].id = githubResponse.items[n + i].id

C12_Witness ==
  /\ ContentBatch /\ pc = "done"
  /\ Len(githubResponse.items) = MAX_CONTENT_FETCHES + 1
  /\ firstSettled = MAX_CONTENT_FETCHES
  /\ response.results[1].id = 1
  /\ response.results[MAX_CONTENT_FETCHES + 1] = remainingItems[1]

\* the outbound calls made for one hit (hit i has id i, its position)
CallsFor == {i \in 1..Len(calls) : calls[i].item # 0}

\* C13: no call is ever issued for a hit beyond the bound.  The search
\* route sends at most min(k, MAX_CONTENT_FETCHES) content fetches, each for
\* one of the first MAX_CONTENT_FETCHES hits; the pattern route sends no
\* content fetch, repository fetch or planner call for a hit beyond the
\* first MAX_RESULTS
C13_NoCallBeyondBound ==
  LET k == Len(githubResponse.items)
  IN  /\ route = "search" =>
             /\ Cardinality(IssuedTo("content")) <= Min(k, MAX_CONTENT_FETCHES)
             /\ \A i \in CallsFor :
                  calls[i].api = "content" /\ calls[i].item <= MAX_CONTENT_FETCHES
      /\ route = "pattern" =>
             /\ \A i \in CallsFor : calls[i].item <= Min(k, MAX_RESULTS)
             /\ \A a \in {"content", "repo"} :
                  Cardinality(IssuedTo(a)) <= Min(k, MAX_RESULTS)
             /\ Cardinality(IssuedTo("planner")) <= Min(k, MAX_RESULTS)

C13_Witness ==
  /\ route = "pattern" /\ pc = "done"
  /\ Len(githubResponse.items) = MAX_RESULTS + 1
  /\ githubResponse.items[MAX_RESULTS + 1].res = "base64"
  /\ \E i \in CallsFor : calls[i] = AnalysisCall(MAX_RESULTS)
  /\ Cardinality(IssuedTo("content")) = MAX_RESULTS

\* a successful code search, whatever the hits look like
CodeBatch ==
  /\ route = "search"
  /\ parsedResponse.searchPlan.searchTarget = "code"
  /\ githubResponse.kind = "response" /\ Ok(githubResponse)
  /\ githubResponse.bodyOk /\ githubResponse.hasItems

\* the result carries one of the placeholders of the handler
IsSentinel(r) ==
  \/ EncodesFailure(r)
  \/ r.fullContent \in {<<"// Content unavailable">>, <<"// Error decoding content">>}

\* C14: whatever the outcome of each hit (content response not ok, rejected
\* fetch, unparsable body, no content, hit without repository data), a
\* successful code search ends with status 200 and one result per hit, and
\* the result of every hit within the bound that did not yield its file
\* carries a placeholder
C14_NoFailureThrownUpward ==
  (CodeBatch /\ pc = "done") =>
     /\ response.status = 200 /\ response.error = <<>>
     /\ Len(response.results) = Len(githubResponse.items)
     /\ \A i \in 1..Min(Len(githubResponse.items), MAX_CONTENT_FETCHES) :
          LET item == githubResponse.items[i]
          IN  (ContentFailed(item) \/ item.res = "empty" \/ ~item.hasRepo)
                 => IsSentinel(response.results[i])

\* the fetch outcome a result carries: the results have no status field,
\* the outcome is what the snippet and the content of the result tell
FetchStatus(r) ==
  IF LimitReached(r) THEN "limitReached"
  ELSE IF r.fullContent \in {<<"// Full content could not be fetched.">>,
                             <<"// Content unavailable">>}
  THEN "contentUnavailable"
  ELSE IF \E m \in {"fetch failed", "Unexpected token < in JSON"} :
            r.fullContent = <<ErrorLine("content", m)>>
  THEN "error"
  ELSE "ok"

\* the outcome of the hit at position i
OutcomeOf(item, i) ==
  IF i > MAX_CONTENT_FETCHES THEN "limitReached"
  ELSE IF item.res \in {"http404", "empty"} THEN "contentUnavailable"
  ELSE IF item.res \in {"neterr", "badjson"} THEN "error"
  ELSE "ok"

\* C15: every result carries the outcome of its hit: ok when the file was
\* fetched, contentUnavailable when the resource was not served or has no
\* content, limitReached beyond the bound, error with the message of the
\* failure when the fetch raised; a fetched file is never reported as failed
C15_OutcomeDistinguishable ==
  (ContentBatch /\ pc = "done") =>
     \A i \in 1..Len(response.results) :
        LET item == githubResponse.items[i]
            r == response.results[i]
        IN  /\ FetchStatus(r) = OutcomeOf(item, i)
            /\ FetchStatus(r) = "error" =>
                  r.fullContent = <<ErrorLine("content", ErrorMessage(item))>>

\* C16: when the same hit list is enriched a second time with the upstream
\* resources unchanged, the second response equals the first one, in
\* length, in order and in the content of every result, whatever the
\* settle order of either run
C16_RerunYieldsSameResults ==
  (route = "search" /\ pc = "done" /\ previous # NoResponse) =>
     /\ Len(response.results) = Len(previous.results)
     /\ \A i \in 1..Len(response.results) : response.results[i] = previous.results[i]
     /\ response = previous

C16_Witness ==
  /\ ContentBatch /\ pc = "done" /\ previous # NoResponse
  /\ Len(githubResponse.items) = MAX_CONTENT_FETCHES + 1
  /\ githubResponse.items[1].res = "http404"
  /\ firstSettled = MAX_CONTENT_FETCHES
  /\ Len(response.results) = MAX_CONTENT_FETCHES + 1
  /\ response.results = previous.results

\* the task has settled
Settled(t) == t.st \in {"fulfilled", "rejected"}

\* C17: on both routes every task of the batch is started as soon as the
\* search is answered (one task and one content fetch per hit within the
\* bound, before any task has settled), and the response is sent only after
\* every task of the batch has settled
C17_BatchAwaitsEveryTask ==
  /\ (pc = "awaitAll" /\ firstSettled = 0) =>
        /\ Len(tasks) = Min(Len(githubResponse.items), MAX_RESULTS)
        /\ Cardinality(IssuedTo("content")) = Len(tasks)
  /\ pc = "done" => \A i \in 1..Len(tasks) : Settled(tasks[i])

\* a finished pattern request whose search was answered with a hit list
PatternBatch ==
  /\ route = "pattern" /\ pc = "done"
  /\ githubResponse.kind = "response" /\ Ok(githubResponse) /\ githubResponse.bodyOk

\* the positions of the hits the pattern route works on
PatternHead == 1..Min(Len(githubResponse.items), MAX_RESULTS)

\* the positions at which a result of hit i is found in the response
ResultsOf(i) == {j \in 1..Len(response.results) : response.results[j].id = i}

\* the planner call for the hit fails, or its answer does not parse
AnalysisFailed(item) == item.llm \in {"throw", "prose", "barefence"}

\* some stage of the task of the hit fails
StageFailed(item) ==
  ContentFailed(item) \/ item.repo # "ok" \/ AnalysisFailed(item)

ResolvesNull(item) ==
  ContentFailed(item) \/ ~item.hasRepo \/ item.repo = "neterr"

C19_OrderedSubsequence ==
  PatternBatch =>
     /\ Len(response.results) <= Min(Len(githubResponse.items), MAX_RESULTS)
     /\ \A j \in 1..Len(response.results) :
          /\ ~response.results[j].null
          /\ response.results[j].id \in PatternHead
          /\ response.results[j] = tasks[response.results[j].id].value
     /\ \A j1, j2 \in 1..Len(response.results) :
          j1 < j2 => response.results[j1].id < response.results[j2].id

C19_Witness ==
  /\ PatternBatch /\ Len(githubResponse.items) = MAX_RESULTS + 1
  /\ firstSettled = MAX_RESULTS
  /\ Len(response.results) = 2
  /\ response.results[1].id = 1 /\ response.results[2].id = MAX_RESULTS

\* the scores of the documented range, as the JSON number of the answer
ValidScores == {ToString(n) : n \in 0..100}

\* C20: the score of every result of a pattern request is an integer of
\* the range: 0 when the analysis failed, 1..100 otherwise; a score the
\* answer of the planner leaves out, gives as text or gives outside the
\* range never reaches the caller
C20_ScoreInRange ==
  PatternBatch =>
     \A j \in 1..Len(response.results) :
        LET r == response.results[j]
        IN  /\ r.analysis.overallScore \in ValidScores
            /\ r.analysis.overallScore = "0" <=> AnalysisFailed(githubResponse.items[r.id])

\* C21: in every result of a pattern request the four text fields of the
\* analysis and the fields of the repository are defined, whatever the
\* planner and the repository endpoint answered
C21_FieldsDefined ==
  PatternBatch =>
     \A j \in 1..Len(response.results) :
        LET r == response.results[j]
        IN  /\ \A f \in AnalysisFields \ {"overallScore"} : r.analysis[f] # undefined
            /\ r.repository.name # undefined
            /\ r.repository.full_name # undefined
            /\ r.repository.stars # undefined

\* the text has the form owner/repo: a slash with a non-empty run of name
\* characters (letters, digits, underscore, dot, hyphen) before and after it
OwnerRepoForm(s) ==
  \E i \in 2..(Len(s) - 1) :
     /\ s[i] = SLASH
     /\ \A j \in (1..Len(s)) \ {i} : IsNameChar(s[j])

\* C22: once a pattern request with a usable code pattern has passed the
\* validation, its search query carries the repository filter as repo
\* qualifier if and only if the filter has the form owner/repo; with any
\* other filter the query has no repo qualifier, keeps the pattern and the
\* other qualifiers, and the search request is sent all the same
C22_RepoQualifierIffOwnerRepo ==
  (route = "pattern" /\ body.json /\ ~Unusable(body.input) /\ pc # "start") =>
     /\ IF body.repoFilter.type = "string" /\ OwnerRepoForm(body.repoFilter.str)
        THEN searchQuery.repo = body.repoFilter.str
        ELSE searchQuery.repo = <<>>
     /\ searchQuery.codePattern = body.input.str
     /\ searchQuery.language = body.language.str
     /\ searchQuery.user = body.userFilter.str
     /\ Cardinality(IssuedTo("search")) = 1

C22_Witness ==
  /\ route = "pattern" /\ pc = "done"
  /\ body.repoFilter = JSString(<<LETTER, SPACE, SLASH, LETTER>>)
  /\ body.language = JSString(<<LETTER>>)
  /\ searchQuery.repo = <<>> /\ searchQuery.language = <<LETTER>>
  /\ response.status = 200 /\ Len(response.results) = 1

\* C23: a search request calls the planner once, as soon as the query has
\* passed the validation, and never again; it sends at most one search
\* request, and only after the planner has answered with a text; a failed
\* planner call or search request is not repeated
C23_OnePlannerCallOneSearch ==
  route = "search" =>
     /\ Cardinality(IssuedTo("planner")) = (IF pc = "start" \/ calls = <<>> THEN 0 ELSE 1)
     /\ (body.json /\ ~Unusable(body.input) /\ pc # "start") => calls[1] = PlannerCall
     /\ Cardinality(IssuedTo("search")) <= 1
     /\ \A i \in IssuedTo("search") :
          /\ i = 2 /\ calls[1] = PlannerCall
          /\ PlannerAnswered /\ parsedResponse.ok
     /\ (pc = "done" /\ (PlannerFailed \/ githubResponse.kind = "throw")) =>
          Len(calls) <= 2

C23_Witness ==
  /\ route = "search" /\ pc = "done"
  /\ githubResponse.kind = "response" /\ githubResponse.status = 503
  /\ Len(calls) = 2 /\ calls[1] = PlannerCall /\ calls[2].api = "search"

\* a successful repository search of hits that carry their owner
RepositoryBatch ==
  /\ route = "search"
  /\ parsedResponse.ok /\ parsedResponse.hasPlan
  /\ parsedResponse.searchPlan.searchTarget = "repositories"
  /\ githubResponse.kind = "response" /\ Ok(githubResponse)
  /\ githubResponse.bodyOk /\ githubResponse.hasItems
  /\ \A i \in 1..Len(githubResponse.items) : githubResponse.items[i].hasRepo

\* C24: a plan with target repositories never leads to a call after the
\* search request; when the search succeeds the request is finished at
\* once, with one result per hit in the order of the hits, each built from
\* its hit with an empty path, an empty snippet (lines 0 to 0) and an empty
\* content
C24_RepositoryTargetNoSecondCall ==
  /\ (route = "search" /\ parsedResponse.ok /\ parsedResponse.hasPlan
         /\ parsedResponse.searchPlan.searchTarget = "repositories") =>
        /\ tasks = <<>> /\ IssuedTo("content") = {} /\ IssuedTo("repo") = {}
        /\ \A i \in IssuedTo("search") : i = Len(calls)
  /\ RepositoryBatch =>
        /\ pc = "done" /\ response.status = 200
        /\ Len(response.results) = Len(githubResponse.items)
        /\ \A i \in 1..Len(response.results) :
             response.results[i] =
               [id |-> githubResponse.items[i].id, path |-> "", code |-> <<"">>,
                lineStart |-> 0, lineEnd |-> 0, fullContent |-> <<"">>]

C24_Witness ==
  /\ RepositoryBatch /\ pc = "done"
  /\ Len(githubResponse.items) = 2
  /\ githubResponse.items[1].res = "http404"
  /\ Len(calls) = 2
  /\ response.results[2].id = 2 /\ response.results[2].fullContent = <<"">>

\* the content endpoint serves the file of the hit
Served(item) == item.res \in {"base64", "plain", "long", "mimicUnavailable", "mimicLimit"}

\* the preview of the result is the head of the file of its hit
PreviewOf(r, item) ==
  LET L == Len(FileText(item))
  IN  /\ r.code = SubSeq(FileText(item), 1, Min(10, L))
      /\ r.lineStart = 1
      /\ r.lineEnd = Min(10, L)

\* C25 as stated: the preview of a fetched file of L lines is its first
\* min(10, L) lines, numbered from 1 to min(10, L), and the result reports
\* the number of lines of the file in one of its line fields
C25_PreviewAndLineCount ==
  (ContentBatch /\ pc = "done") =>
     \A i \in 1..Min(Len(response.results), MAX_CONTENT_FETCHES) :
        Served(githubResponse.items[i]) =>
           /\ PreviewOf(response.results[i], githubResponse.items[i])
           /\ Len(FileText(githubResponse.items[i]))
                 \in {response.results[i].lineStart, response.results[i].lineEnd}

\* C25, amended: the preview of a fetched file of L lines is its first
\* min(10, L) lines, numbered from 1 to min(10, L); the result has no field
\* for the number of lines of the file: lineEnd is the number of lines of
\* the preview, and the file is returned whole as fullContent
C25_PreviewIsHead ==
  (ContentBatch /\ pc = "done") =>
     \A i \in 1..Min(Len(response.results), MAX_CONTENT_FETCHES) :
        Served(githubResponse.items[i]) =>
           /\ PreviewOf(response.results[i], githubResponse.items[i])
           /\ response.results[i].lineEnd = Len(response.results[i].code)
           /\ response.results[i].fullContent = FileText(githubResponse.items[i])

C25_Witness ==
  /\ ContentBatch /\ pc = "done"
  /\ Len(response.results) >= 1
  /\ githubResponse.items[1].res = "long"
  /\ Len(response.results[1].fullContent) = MaxLines
  /\ response.results[1].lineEnd = 10
  /\ response.results[1].code[10] = "10"

\* the file content the Content Enricher derives from the content response
\* of the hit (search/route.ts 246-259)
EnricherContent(item) == EnrichTask(item).value.fullContent

\* C26: from the same content response the Content Enricher and the Pattern
\* Comparator derive the same file content, decoded only when the payload
\* is declared base64, and a failed fetch is represented the same way: the
\* hit stays in the output of both
C26_SamePayloadSameContent ==
  PatternBatch =>
     \A i \in PatternHead :
        LET item == githubResponse.items[i]
        IN  (item.hasRepo /\ item.repo = "ok") =>
               /\ ResultsOf(i) # {}
               /\ \A j \in ResultsOf(i) :
                     response.results[j].codeContent = EnricherContent(item)

\* the positions of the calls made to an endpoint for hit i
CallsOf(api, i) == {n \in 1..Len(calls) : calls[n].api = api /\ calls[n].item = i}

\* the number of calls the task of a hit makes before it ends
CallsOfTask(item) ==
  IF ContentFailed(item) \/ ~item.hasRepo THEN 1
  ELSE IF item.repo = "neterr" THEN 2 ELSE 3

RECURSIVE CallsOfTasks(_)
CallsOfTasks(items) ==
  IF items = <<>> THEN 0 ELSE CallsOfTask(Head(items)) + CallsOfTasks(Tail(items))

RequestFailed == ui.last \in {"error", "thrown"} /\ ~ui.error.null

\* C27: whenever a request of the pattern analyzer interface fails, the
\* interface reaches a state in which the error message is displayed
C27_FailureIsDisplayed ==
  (ui.kind = "analyzer" /\ RequestFailed) ~> (Displayed(ui) = "error")

\* the card with the error message is rendered in no reachable state of the
\* pattern analyzer interface
C27_ErrorCardNeverRendered == ui.kind = "analyzer" => Displayed(ui) # "error"

\* C29: on the search page at most one request is in flight, isLoading is
\* true exactly while it is, a search is only submitted while isLoading is
\* false, and every search that was submitted leaves the loading state once
\* its request has ended: by a response, ok or not, or by a rejection
C29_OneInFlightAndLoadingEnds ==
  /\ [](ui.kind = "page" =>
          /\ ui.inflight <= 1
          /\ ui.isLoading <=> ui.inflight = 1
          /\ (ui.isLoading <=> pc # "idle"))
  /\ [][ui.submits' # ui.submits => ~ui.isLoading /\ ui'.isLoading]_vars
  /\ ((ui.kind = "page" /\ ui.isLoading) ~> ~ui.isLoading)

C29_Witness ==
  /\ ui.kind = "page" /\ ui.submits = MaxSubmits
  /\ ui.last = "thrown" /\ ~ui.isLoading /\ ui.inflight = 0

\* C30: in every state of the search page an error comes with an empty
\* result list, and after a successful search the error is null
C30_ErrorMeansNoResults ==
  ui.kind = "page" =>
     /\ ~ui.error.null => ui.results = <<>>
     /\ ui.last = "success" => ui.error.null

C30_Witness ==
  /\ ui.kind = "page" /\ ui.held > 0
  /\ ui.last \in {"error", "thrown"} /\ ~ui.isLoading
  /\ ~ui.error.null /\ ui.results = <<>>
====
